---- MODULE Spec2Model ----
(***************************************************************************)
(* Device registry of wolc (src-tauri/src/devicemanager.rs).               *)
(*                                                                         *)
(* The registry is one JSON document, devices.json.  Every command is a    *)
(* fresh load-mutate-persist cycle over that document; nothing is cached   *)
(* between calls.  The model keeps the document as the JSON text the code  *)
(* writes and reads: a list of JSON objects plus a flag telling whether    *)
(* the text is a complete array.  Device values cross the command boundary *)
(* and the file through the serde derive of Device, which is modelled by   *)
(* what it does (Serialize omits an absent targetAddr, Deserialize ignores *)
(* keys the struct does not have and fails on a missing required key).     *)
(***************************************************************************)
EXTENDS Integers, Sequences, FiniteSets, TLC

VARIABLES
    doc,      \* devices.json: [exists, items, closed]
    issued,   \* the ids that are taken: returned by Uuid::new_v4, or found in the file
    last,     \* the last command: its result and the host steps it took
    call,     \* the last command's arguments and the document it started from
    faulty,   \* whether the host can fail (directory resolution, file I/O)
    trip,     \* a list on its way through write_devices_to_file and back
    net,      \* the last send_wol_packet call and what it did on the network
    tasks     \* registry calls in flight, each between its load and its persist

vars == <<doc, issued, last, call, faulty, trip, net, tasks>>

----------------------------------------------------------------------------
(* Bounds of the model *)

NumIds == 3          \* how many ids there are (generated or supplied by a caller)
MaxDevices == 3      \* a create is started only on a list shorter than this

Ids == 1..NumIds
Names == {"pc", "nas"}
Macs == {"AA:BB:CC:DD:EE:FF", "00:11:22:33:44:55"}
Addrs == {"192.168.0.255"}
Ports == {7}

(* the name and mac a caller types in for a machine *)
Labels == {[name |-> "pc", mac |-> "AA:BB:CC:DD:EE:FF"],
           [name |-> "nas", mac |-> "00:11:22:33:44:55"]}

----------------------------------------------------------------------------
(* Option<T>: None is the empty sequence, Some(x) the one-element sequence *)

None == <<>>
Some(x) == <<x>>

(* JSON null, as a hand-edited document may spell an absent targetAddr *)
Null == "null"

(* struct Device { id, name, mac, target_addr: Option<String> } *)
Device == [id : Ids, name : Names, mac : Macs,
           target_addr : {None} \cup {Some(a) : a \in Addrs}]

(* A JSON object is a function from the keys it has to their values. *)
JsonObject(id, name, mac, targetAddr, port) ==
    [k \in {"id", "name", "mac"}
            \cup (IF targetAddr = None THEN {} ELSE {"targetAddr"})
            \cup (IF port = None THEN {} ELSE {"port"}) |->
        CASE k = "id" -> id
          [] k = "name" -> name
          [] k = "mac" -> mac
          [] k = "targetAddr" -> targetAddr[1]
          [] k = "port" -> port[1]]

(* #[derive(Serialize)] with rename = "targetAddr" and
   skip_serializing_if = "Option::is_none": three keys always, targetAddr
   only when it is Some. *)
Serialize(d) ==
    [k \in (IF d.target_addr = None THEN {"id", "name", "mac"}
                                     ELSE {"id", "name", "mac", "targetAddr"}) |->
        CASE k = "id" -> d.id
          [] k = "name" -> d.name
          [] k = "mac" -> d.mac
          [] k = "targetAddr" -> d.target_addr[1]]

(* #[derive(Deserialize)]: id, name and mac are required; an Option field may
   be missing or null; a key the struct does not have is skipped. *)
CanDeserialize(obj) == {"id", "name", "mac"} \subseteq DOMAIN obj

Deserialize(obj) ==
    [id |-> obj["id"], name |-> obj["name"], mac |-> obj["mac"],
     target_addr |-> IF "targetAddr" \in DOMAIN obj /\ obj["targetAddr"] # Null
                     THEN Some(obj["targetAddr"]) ELSE None]

SerializeAll(devices) == [i \in 1..Len(devices) |-> Serialize(devices[i])]

----------------------------------------------------------------------------
(* The backing document *)

NoFile == [exists |-> FALSE, items |-> <<>>, closed |-> FALSE]

(* a complete JSON array *)
FileOf(items) == [exists |-> TRUE, items |-> items, closed |-> TRUE]

(* What a failed write leaves: File::create has emptied the file and a proper
   prefix of the new text, possibly nothing, has reached it.  No prefix of a
   JSON array is a JSON document, so the model keeps no content for it. *)
Truncated == [exists |-> TRUE, items |-> <<>>, closed |-> FALSE]

(* Result<Vec<Device>> *)
Ok(devices) == [ok |-> TRUE, err |-> "", devices |-> devices]
Err(e) == [ok |-> FALSE, err |-> e, devices |-> <<>>]

(* What the host does during one call: which step fails, if any
   ("dir" the directory resolution, "open" File::open with an error other than
   NotFound, "create" File::create, "write" a write made while serializing,
   "flush" the write made when the BufWriter is dropped) *)
Faults == {"none", "dir", "open", "create", "write", "flush"}

(* position() that falls back to the first element when nothing matches *)
PositionOrFirst(devices, id) ==
    IF \E i \in 1..Len(devices) : devices[i].id = id
    THEN CHOOSE i \in 1..Len(devices) :
            /\ devices[i].id = id
            /\ \A j \in 1..(i - 1) : devices[j].id # id
    ELSE IF Len(devices) > 0 THEN 1 ELSE 0

(* rposition(): the last index whose id matches *)
PositionLast(devices, id) ==
    IF \E i \in 1..Len(devices) : devices[i].id = id
    THEN CHOOSE i \in 1..Len(devices) :
            /\ devices[i].id = id
            /\ \A j \in (i + 1)..Len(devices) : devices[j].id # id
    ELSE 0

(* devices.iter().position(|d| d.id == updated_device.id): the first index
   whose id matches, 0 standing for Option::None *)
Position(devices, id) ==
    IF \E i \in 1..Len(devices) : devices[i].id = id
    THEN CHOOSE i \in 1..Len(devices) :
            /\ devices[i].id = id
            /\ \A j \in 1..(i - 1) : devices[j].id # id
    ELSE 0

(* Vec::swap_remove in place of retain: the last element fills the hole *)
SwapRemove(devices, id) ==
    LET i == Position(devices, id)
        n == Len(devices)
    IN  IF i = 0 THEN devices
        ELSE IF i = n THEN SubSeq(devices, 1, n - 1)
        ELSE SubSeq([devices EXCEPT ![i] = devices[n]], 1, n - 1)

(* retain with the test the wrong way round: keeps the matching entries *)
RetainInverted(devices, id) == SelectSeq(devices, LAMBDA d : d.id = id)

(* devices.retain(|d| d.id != device_id) *)
Retain(devices, id) == SelectSeq(devices, LAMBDA d : d.id # id)

(* a path is made up when the host supplies no directory *)
get_config_path_or_default(env) == TRUE

(* get_config_path: the only thing that can go wrong is the host *)
get_config_path(env) == env.fault # "dir"

(* a reader for which a missing file is an error like any other *)
read_devices_strict(file, env) ==
    IF env.fault = "open" \/ ~file.exists THEN Err("IoOpen")
    ELSE IF ~file.closed
            \/ \E i \in 1..Len(file.items) : ~CanDeserialize(file.items[i])
         THEN Err("Deserialization")
    ELSE Ok([i \in 1..Len(file.items) |-> Deserialize(file.items[i])])

(* a reader that takes a text it cannot parse for an empty list *)
read_devices_or_default(file, env) ==
    IF env.fault = "open" THEN Err("IoOpen")
    ELSE IF ~file.exists THEN Ok(<<>>)
    ELSE IF ~file.closed
            \/ \E i \in 1..Len(file.items) : ~CanDeserialize(file.items[i])
         THEN Ok(<<>>)
    ELSE Ok([i \in 1..Len(file.items) |-> Deserialize(file.items[i])])

(* read_devices_from_file: File::open, then serde_json::from_reader *)
read_devices_from_file(file, env) ==
    IF env.fault = "open" THEN Err("IoOpen")
    ELSE IF ~file.exists THEN Ok(<<>>)
    ELSE IF ~file.closed
            \/ \E i \in 1..Len(file.items) : ~CanDeserialize(file.items[i])
         THEN Err("Deserialization")
    ELSE Ok([i \in 1..Len(file.items) |-> Deserialize(file.items[i])])

(* write_devices_to_file: File::create truncates the file, serde_json writes
   the text through a BufWriter, and the BufWriter is dropped without flush().
   An error of File::create leaves the file alone.  An error of a write issued
   while the text is being serialized (the text outgrew the buffer, which a
   non-empty list can do) comes back as an error.  An error of the write
   issued by the drop of the BufWriter is discarded by the drop: the call
   returns Ok.  Either way the file keeps the part written before the error. *)
write_devices_to_file(file, devices, env) ==
    LET json == SerializeAll(devices)
    IN  IF env.fault = "create"
        THEN [result |-> Err("IoCreate"), doc |-> file, steps |-> <<"create">>]
        ELSE IF env.fault = "write" /\ Len(devices) > 0
        THEN [result |-> Err("IoWrite"), doc |-> Truncated,
              steps |-> <<"create", "write">>]
        ELSE IF env.fault \in {"write", "flush"}
        THEN [result |-> Ok(<<>>), doc |-> Truncated, steps |-> <<"create", "write">>]
        ELSE [result |-> Ok(<<>>), doc |-> FileOf(json), steps |-> <<"create", "write">>]

----------------------------------------------------------------------------
(* The internal functions.  Each returns the call's result, the document it
   leaves behind and the host steps it took, in order:
   "dir" get_config_path, "open" File::open, "uuid" Uuid::new_v4,
   "create" File::create, "write" the serialization into the file. *)

Out(result, file, steps) == [result |-> result, doc |-> file, steps |-> steps]

(* the caller's id kept *)
NewDeviceKeepId(new_device_data, uuid) == new_device_data

(* new_device_data.id = Uuid::new_v4().to_string() *)
NewDevice(new_device_data, uuid) == [new_device_data EXCEPT !.id = uuid]

(* insert(0, ...): the new entry goes to the front *)
PushFront(devices, d) == <<d>> \o devices

(* devices.push(new_device_data) *)
Push(devices, d) == Append(devices, d)

(* devices[index] = updated_device *)
Replace(devices, index, updated_device) == [devices EXCEPT ![index] = updated_device]

Persist(file, devices, env, steps) ==
    LET w == write_devices_to_file(file, devices, env)
    IN  Out(IF w.result.ok THEN Ok(devices) ELSE w.result, w.doc, steps \o w.steps)

load_devices_internal(file, env) ==
    IF ~get_config_path(env) THEN Out(Err("ConfigDir"), file, <<"dir">>)
    ELSE Out(read_devices_from_file(file, env), file, <<"dir", "open">>)

add_device_internal(file, new_device_data, env) ==
    IF ~get_config_path(env) THEN Out(Err("ConfigDir"), file, <<"dir">>)
    ELSE LET r == read_devices_from_file(file, env)
         IN  IF ~r.ok THEN Out(r, file, <<"dir", "open">>)
             ELSE Persist(file, Push(r.devices, NewDevice(new_device_data, env.uuid)),
                          env, <<"dir", "open", "uuid">>)

update_device_internal(file, updated_device, env) ==
    IF ~get_config_path(env) THEN Out(Err("ConfigDir"), file, <<"dir">>)
    ELSE LET r == read_devices_from_file(file, env)
             index == Position(r.devices, updated_device.id)
         IN  IF ~r.ok THEN Out(r, file, <<"dir", "open">>)
             ELSE IF index # 0
             THEN Persist(file, Replace(r.devices, index, updated_device),
                          env, <<"dir", "open">>)
             ELSE Out(Err("NotFound"), file, <<"dir", "open">>)

(* delete that persists the filtered list before it looks at the lengths *)
delete_device_write_first(file, device_id, env) ==
    IF ~get_config_path(env) THEN Out(Err("ConfigDir"), file, <<"dir">>)
    ELSE LET r == read_devices_from_file(file, env)
             devices == Retain(r.devices, device_id)
             p == Persist(file, devices, env, <<"dir", "open">>)
         IN  IF ~r.ok THEN Out(r, file, <<"dir", "open">>)
             ELSE IF p.result.ok /\ Len(devices) = Len(r.devices)
             THEN Out(Err("NotFound"), p.doc, p.steps)
             ELSE p

delete_device_internal(file, device_id, env) ==
    IF ~get_config_path(env) THEN Out(Err("ConfigDir"), file, <<"dir">>)
    ELSE LET r == read_devices_from_file(file, env)
             devices == Retain(r.devices, device_id)
         IN  IF ~r.ok THEN Out(r, file, <<"dir", "open">>)
             ELSE IF Len(devices) = Len(r.devices)
             THEN Out(Err("NotFound"), file, <<"dir", "open">>)
             ELSE Persist(file, devices, env, <<"dir", "open">>)

----------------------------------------------------------------------------
(* The commands.  A command's `device` argument arrives as a JSON object and is
   deserialized into a Device before the internal function runs. *)

ArgObjects ==
    {JsonObject(id, l.name, l.mac, ta, port) :
        id \in Ids, l \in Labels,
        ta \in {None} \cup {Some(a) : a \in Addrs},
        port \in {None} \cup {Some(p) : p \in Ports}}

NoArg == [id |-> 0]

(* Uuid::new_v4 returns a random 122-bit value: one that is not taken.  The
   functions only ever compare ids for equality and callers may supply any id,
   so which of the free ids comes back does not matter; the model returns the
   least one. *)
(* a generator that hands out the same value again *)
new_v4_first == CHOOSE u \in Ids : \A v \in Ids : u <= v

new_v4 == CHOOSE u \in Ids \ issued : \A v \in Ids \ issued : u <= v

(* what the host may do during one call, and the value new_v4 would return *)
Hosts(u) == {[fault |-> f, uuid |-> u] : f \in (IF faulty THEN Faults ELSE {"none"})}

Has(steps, s) == \E i \in 1..Len(steps) : steps[i] = s

NoCall == [device |-> NoArg, device_id |-> 0, before |-> NoFile]

(* On the host that cannot fail the arguments and the document before the call
   are kept for the statements about what a call does; on the failing host
   the statements are about results and steps. *)
Called(op, device, device_id, env, returned) ==
    \E out \in {returned} :
        /\ doc' = out.doc
        /\ issued' = IF Has(out.steps, "uuid") THEN issued \cup {env.uuid} ELSE issued
        /\ last' = [op |-> op, result |-> out.result, steps |-> out.steps,
                    uuid |-> IF Has(out.steps, "uuid") THEN env.uuid ELSE 0,
                    fault |-> env.fault]
        /\ call' = IF faulty THEN NoCall
                   ELSE [device |-> device, device_id |-> device_id, before |-> doc]
        /\ UNCHANGED <<faulty, trip, net, tasks>>

load_devices ==
    \E env \in Hosts(0) :
        Called("load", NoArg, 0, env, load_devices_internal(doc, env))

add_device ==
    /\ Len(doc.items) < MaxDevices
    /\ Ids \ issued # {}
    /\ \E device \in ArgObjects, env \in Hosts(new_v4) :
        Called("add", device, 0, env,
               add_device_internal(doc, Deserialize(device), env))

update_device ==
    \E device \in ArgObjects, env \in Hosts(0) :
        Called("update", device, 0, env,
               update_device_internal(doc, Deserialize(device), env))

delete_device ==
    \E device_id \in Ids, env \in Hosts(0) :
        Called("delete", NoArg, device_id, env,
               delete_device_internal(doc, device_id, env))

Next == load_devices \/ add_device \/ update_device \/ delete_device

NoResult == [op |-> "none", result |-> Ok(<<>>), steps |-> <<>>, uuid |-> 0,
             fault |-> "none"]

(* nothing on its way, nothing sent, nothing in flight *)
NoTrip == [stage |-> "none", given |-> <<>>, loaded |-> Ok(<<>>)]

SendOk == [ok |-> TRUE, err |-> ""]

SendErr(e) == [ok |-> FALSE, err |-> e]

NoSend == [called |-> FALSE, mac_address |-> <<>>, target_addr |-> <<>>, port |-> <<>>,
           transport |-> "none", result |-> SendOk, steps |-> <<>>, wire |-> <<>>]

NoTasks == <<>>

Idle == trip = NoTrip /\ net = NoSend /\ tasks = NoTasks

(* first run on a host whose directory and file system work *)
Init ==
    /\ doc = NoFile
    /\ issued = {}
    /\ last = NoResult
    /\ call = NoCall
    /\ faulty = FALSE
    /\ Idle

Spec == Init /\ [][Next]_vars

(* first run on a host that can fail *)
InitFaults ==
    /\ doc = NoFile
    /\ issued = {}
    /\ last = NoResult
    /\ call = NoCall
    /\ faulty = TRUE
    /\ Idle

SpecFaults == InitFaults /\ [][Next]_vars

(* a host that works, started on a file somebody has edited by hand: entries
   that share an id, an entry written with a port, a null targetAddr, an entry
   without mac, a text cut short *)
EditedItems ==
    {JsonObject(1, "pc", "AA:BB:CC:DD:EE:FF", None, None),
     JsonObject(1, "nas", "00:11:22:33:44:55", Some("192.168.0.255"), Some(7)),
     JsonObject(1, "pc", "AA:BB:CC:DD:EE:FF", Some(Null), None),
     [id |-> 1, name |-> "nas"]}

EditedDocs ==
    {NoFile, Truncated, FileOf(<<>>)}
    \cup {FileOf(<<a>>) : a \in EditedItems}
    \cup {FileOf(<<a, b>>) : a \in EditedItems, b \in EditedItems}

InitEdited ==
    /\ doc \in EditedDocs
    /\ issued = {doc.items[i]["id"] : i \in 1..Len(doc.items)}
    /\ last = NoResult
    /\ call = NoCall
    /\ faulty = FALSE
    /\ Idle

SpecEdited == InitEdited /\ [][Next]_vars

----------------------------------------------------------------------------
(* Persisting a list and loading it again.  The list is given as the JSON a
   caller holds; it becomes a Vec<Device> when it crosses the command
   boundary, is written by write_devices_to_file and read back by
   read_devices_from_file on a host that does not fail. *)

Sound == [fault |-> "none", uuid |-> 0]

TripLists ==
    {<<>>} \cup {<<a>> : a \in ArgObjects}
           \cup {<<a, b>> : a \in ArgObjects, b \in ArgObjects}

trip_persist ==
    /\ trip.stage = "given"
    /\ LET devices == [i \in 1..Len(trip.given) |-> Deserialize(trip.given[i])]
       IN  doc' = write_devices_to_file(doc, devices, Sound).doc
    /\ trip' = [trip EXCEPT !.stage = "persisted"]
    /\ UNCHANGED <<issued, last, call, faulty, net, tasks>>

trip_load ==
    /\ trip.stage = "persisted"
    /\ trip' = [trip EXCEPT !.stage = "loaded",
                            !.loaded = read_devices_from_file(doc, Sound)]
    /\ UNCHANGED <<doc, issued, last, call, faulty, net, tasks>>

NextTrip == trip_persist \/ trip_load

InitTrip ==
    /\ doc = NoFile
    /\ issued = {}
    /\ last = NoResult
    /\ call = NoCall
    /\ faulty = FALSE
    /\ trip \in {[stage |-> "given", given |-> l, loaded |-> Ok(<<>>)] : l \in TripLists}
    /\ net = NoSend
    /\ tasks = NoTasks

SpecTrip == InitTrip /\ [][NextTrip]_vars

----------------------------------------------------------------------------
(* wol.rs: sending the magic packet.  A MAC argument is the text the caller
   passed, one character per element.  The packet itself is built and sent by
   the wakey crate (WolPacket::from_string, WolPacket::send_magic), which the
   repository only calls: what these two do is taken from the description of
   the dispatcher, what is passed to them and in which order from wol.rs. *)

Text(groups, sep) ==
    LET RECURSIVE Join(_)
        Join(k) == IF k = 0 THEN <<>>
                   ELSE IF k = 1 THEN groups[1]
                   ELSE Join(k - 1) \o <<sep>> \o groups[k]
    IN  Join(Len(groups))

MacArgs ==
    { Text(<<(<<"A","A">>), <<"B","B">>, <<"C","C">>, <<"D","D">>, <<"E","E">>, <<"F","F">>>>, ":"),
      Text(<<(<<"0","0">>), <<"1","1">>, <<"2","2">>, <<"3","3">>, <<"4","4">>, <<"5","5">>>>, ":"),
      Text(<<(<<"0","a">>), <<"1","b">>, <<"2","c">>, <<"3","d">>, <<"4","e">>, <<"5","f">>>>, ":"),
      Text(<<(<<"A","A">>), <<"B","B">>>>, ":"),
      Text(<<(<<"Z","Z">>), <<"B","B">>, <<"C","C">>, <<"D","D">>, <<"E","E">>, <<"F","F">>>>, ":"),
      Text(<<(<<"A","A">>), <<"B","B">>, <<"C","C">>, <<"D","D">>, <<"E","E">>, <<"F","F">>>>, "-"),
      Text(<<(<<"A","A">>), <<"B","B">>, <<"C","C">>, <<"D","D">>, <<"E","E">>, <<"F","F">>,
             <<"0","0">>>>, ":"),
      <<>> }

TargetArgs == {None, Some("192.168.0.255"), Some("10.0.0.7")}

PortArgs == {None, Some(7)}

(* what the transport does to this call: nothing, or it refuses the bind,
   the broadcast option, or the datagram *)
Transports == {"ok", "bind", "set_broadcast", "send_to"}

HexDigits == <<"0", "1", "2", "3", "4", "5", "6", "7", "8", "9",
               "A", "B", "C", "D", "E", "F", "a", "b", "c", "d", "e", "f">>

IsHex(c) == \E i \in 1..Len(HexDigits) : HexDigits[i] = c

HexVal(c) ==
    LET i == CHOOSE j \in 1..Len(HexDigits) : HexDigits[j] = c
    IN  IF i <= 16 THEN i - 1 ELSE i - 7

RECURSIVE Split(_, _)
Split(data, sep) ==
    IF \A i \in 1..Len(data) : data[i] # sep
    THEN <<data>>
    ELSE LET i == CHOOSE j \in 1..Len(data) :
                      data[j] = sep /\ \A k \in 1..(j - 1) : data[k] # sep
         IN  <<SubSeq(data, 1, i - 1)>> \o Split(SubSeq(data, i + 1, Len(data)), sep)

RECURSIVE Repeat(_, _)
Repeat(bytes, n) == IF n = 0 THEN <<>> ELSE bytes \o Repeat(bytes, n - 1)

(* WolPacket::from_string(data, sep): six groups of two hex digits, or an error *)
from_string(data, sep) ==
    LET groups == Split(data, sep)
    IN  IF /\ Len(groups) = 6
           /\ \A g \in 1..Len(groups) :
                /\ Len(groups[g]) = 2
                /\ IsHex(groups[g][1])
                /\ IsHex(groups[g][2])
        THEN LET mac == [g \in 1..6 |-> 16 * HexVal(groups[g][1]) + HexVal(groups[g][2])]
             IN  [ok |-> TRUE, packet |-> Repeat(<<255>>, 6) \o Repeat(mac, 16)]
        ELSE [ok |-> FALSE, packet |-> <<>>]

(* WolPacket::send_magic(): takes no destination; binds a socket, enables
   broadcast and sends the packet once to the limited broadcast address,
   port 9 *)
send_magic(packet, transport) ==
    IF transport = "bind"
    THEN [ok |-> FALSE, steps |-> <<"bind">>, wire |-> <<>>]
    ELSE IF transport = "set_broadcast"
    THEN [ok |-> FALSE, steps |-> <<"bind", "set_broadcast">>, wire |-> <<>>]
    ELSE IF transport = "send_to"
    THEN [ok |-> FALSE, steps |-> <<"bind", "set_broadcast", "send_to">>, wire |-> <<>>]
    ELSE [ok |-> TRUE, steps |-> <<"bind", "set_broadcast", "send_to">>,
          wire |-> <<[host |-> "255.255.255.255", port |-> 9, payload |-> packet]>>]

(* a slip: the dashed notation is asked of the parser *)
send_wol_packet_dashed(mac_address, target_addr, transport) ==
    LET target_mac == from_string(mac_address, "-")
    IN  IF ~target_mac.ok
        THEN [result |-> SendErr("InvalidMacFormat"), steps |-> <<"parse">>, wire |-> <<>>]
        ELSE LET sent == send_magic(target_mac.packet, transport)
             IN  [result |-> IF sent.ok THEN SendOk ELSE SendErr("NetworkSendError"),
                  steps |-> <<"parse">> \o sent.steps, wire |-> sent.wire]

(* a slip: a refused send is tried once more *)
send_wol_packet_retry(mac_address, target_addr, transport) ==
    LET target_mac == from_string(mac_address, ":")
    IN  IF ~target_mac.ok
        THEN [result |-> SendErr("InvalidMacFormat"), steps |-> <<"parse">>, wire |-> <<>>]
        ELSE LET sent == send_magic(target_mac.packet, transport)
                 again == send_magic(target_mac.packet, transport)
             IN  IF sent.ok
                 THEN [result |-> SendOk, steps |-> <<"parse">> \o sent.steps,
                       wire |-> sent.wire]
                 ELSE [result |-> IF again.ok THEN SendOk ELSE SendErr("NetworkSendError"),
                       steps |-> <<"parse">> \o sent.steps \o again.steps,
                       wire |-> again.wire]

(* a slip: the parser's verdict is looked at after the packet has gone out *)
send_wol_packet_late_check(mac_address, target_addr, transport) ==
    LET target_mac == from_string(mac_address, ":")
        sent == send_magic(target_mac.packet, transport)
    IN  [result |-> IF ~target_mac.ok THEN SendErr("InvalidMacFormat")
                    ELSE IF sent.ok THEN SendOk ELSE SendErr("NetworkSendError"),
         steps |-> <<"parse">> \o sent.steps, wire |-> sent.wire]

(* target_socket_addr (lines 23-24) only reaches the log and the error text:
   send_magic is called without it *)
send_wol_packet_internal(mac_address, target_addr, transport) ==
    LET target_mac == from_string(mac_address, ":")
    IN  IF ~target_mac.ok
        THEN [result |-> SendErr("InvalidMacFormat"), steps |-> <<"parse">>, wire |-> <<>>]
        ELSE LET sent == send_magic(target_mac.packet, transport)
             IN  [result |-> IF sent.ok THEN SendOk ELSE SendErr("NetworkSendError"),
                  steps |-> <<"parse">> \o sent.steps, wire |-> sent.wire]

(* the command has the parameters mac_address and target_addr; a port the
   caller passes along is not a parameter and goes nowhere *)
send_wol_packet ==
    \E mac_address \in MacArgs, target_addr \in TargetArgs, port \in PortArgs,
       transport \in Transports :
        LET out == send_wol_packet_internal(mac_address, target_addr, transport)
        IN  /\ net' = [called |-> TRUE, mac_address |-> mac_address,
                       target_addr |-> target_addr, port |-> port,
                       transport |-> transport, result |-> out.result,
                       steps |-> out.steps, wire |-> out.wire]
            /\ UNCHANGED <<doc, issued, last, call, faulty, trip, tasks>>

NextSend == send_wol_packet

InitSend ==
    /\ doc = NoFile
    /\ issued = {}
    /\ last = NoResult
    /\ call = NoCall
    /\ faulty = FALSE
    /\ trip = NoTrip
    /\ net = NoSend
    /\ tasks = NoTasks

SpecSend == InitSend /\ [][NextSend]_vars

----------------------------------------------------------------------------
(* Overlapping commands.  The store takes no lock and the commands are async
   functions on the runtime's threads, so a second command can load the
   document after a first one has loaded it and before it has written.  A
   command is taken in two steps, as the store's own description of the race
   does: the load (with everything computed from the snapshot: the new id and
   the mutated list) and the whole-file write. *)

Procs == {1, 2}

RaceDocs ==
    {NoFile,
     FileOf(<<JsonObject(1, "pc", "AA:BB:CC:DD:EE:FF", None, None)>>),
     FileOf(<<JsonObject(1, "pc", "AA:BB:CC:DD:EE:FF", None, None),
              JsonObject(2, "nas", "00:11:22:33:44:55", Some("192.168.0.255"), None)>>)}

IdleCall == [pc |-> "idle", op |-> "none", device |-> NoArg, device_id |-> 0,
             before |-> NoFile, out |-> Out(Ok(<<>>), NoFile, <<>>), uuid |-> 0]

(* the part of a command up to its write: the snapshot is taken and the
   command has computed what it returns and what it is going to write *)
Loaded(p, op, device, device_id, uuid, out) ==
    /\ tasks.calls[p].pc = "idle"
    /\ tasks' = [calls |-> [tasks.calls EXCEPT ![p] =
                     [pc |-> IF Has(out.steps, "create") THEN "persist" ELSE "done",
                      op |-> op, device |-> device, device_id |-> device_id,
                      before |-> doc, out |-> out,
                      uuid |-> IF Has(out.steps, "uuid") THEN uuid ELSE 0]],
                 log |-> Append(tasks.log, [p |-> p, step |-> "load"])]
    /\ issued' = IF Has(out.steps, "uuid") THEN issued \cup {uuid} ELSE issued
    /\ UNCHANGED <<doc, last, call, faulty, trip, net>>

race_add(p) ==
    /\ Len(doc.items) < MaxDevices
    /\ Ids \ issued # {}
    /\ \E device \in ArgObjects :
        LET env == [fault |-> "none", uuid |-> new_v4]
        IN  Loaded(p, "add", device, 0, env.uuid,
                   add_device_internal(doc, Deserialize(device), env))

race_update(p) ==
    \E device \in ArgObjects :
        Loaded(p, "update", device, 0, 0,
               update_device_internal(doc, Deserialize(device), Sound))

race_delete(p) ==
    \E device_id \in Ids :
        Loaded(p, "delete", NoArg, device_id, 0,
               delete_device_internal(doc, device_id, Sound))

(* write_devices_to_file of the list computed from the snapshot: the whole
   file is replaced, whatever it holds by now *)
race_persist(p) ==
    /\ tasks.calls[p].pc = "persist"
    /\ doc' = tasks.calls[p].out.doc
    /\ tasks' = [calls |-> [tasks.calls EXCEPT ![p].pc = "done"],
                 log |-> Append(tasks.log, [p |-> p, step |-> "persist"])]
    /\ UNCHANGED <<issued, last, call, faulty, trip, net>>

NextRace ==
    \E p \in Procs : race_add(p) \/ race_update(p) \/ race_delete(p) \/ race_persist(p)

InitRace ==
    /\ doc \in RaceDocs
    /\ issued = {doc.items[i]["id"] : i \in 1..Len(doc.items)}
    /\ last = NoResult
    /\ call = NoCall
    /\ faulty = FALSE
    /\ trip = NoTrip
    /\ net = NoSend
    /\ tasks = [calls |-> [p \in Procs |-> IdleCall], log |-> <<>>]

SpecRace == InitRace /\ [][NextRace]_vars

----------------------------------------------------------------------------
(* Vocabulary of the statements below.  They speak of the JSON text of the
   document and of the JSON a caller sends and receives. *)

IdsOf(items) == {items[i]["id"] : i \in 1..Len(items)}

HasId(items, id) == \E i \in 1..Len(items) : items[i]["id"] = id

FirstWithId(items, id) ==
    CHOOSE i \in 1..Len(items) :
        items[i]["id"] = id /\ \A j \in 1..(i - 1) : items[j]["id"] # id

PairwiseDistinctIds(items) ==
    \A i, j \in 1..Len(items) : i # j => items[i]["id"] # items[j]["id"]

(* the document is there and is an array of objects that have the required keys *)
Parses(file) ==
    /\ file.exists
    /\ file.closed
    /\ \A i \in 1..Len(file.items) : {"id", "name", "mac"} \subseteq DOMAIN file.items[i]

Loadable(file) == ~file.exists \/ Parses(file)

(* the list a command hands back to its caller, as the JSON the caller receives *)
Returned == SerializeAll(last.result.devices)

(* same optional field: absent in both, or present in both with one value *)
SameOptional(a, b, k) ==
    /\ (k \in DOMAIN a) = (k \in DOMAIN b)
    /\ (k \in DOMAIN a) => a[k] = b[k]

----------------------------------------------------------------------------
(* C1: starting from no document, after any sequence of create, update and
   delete calls, whatever ids the drafts carry, the ids of the entries in the
   backing document are pairwise distinct. *)
C1_IdsPairwiseDistinct == PairwiseDistinctIds(doc.items)

(* a create whose draft repeated a stored id has just filled the list *)
C1_Witness ==
    /\ last.op = "add"
    /\ last.result.ok
    /\ HasId(call.before.items, call.device["id"])
    /\ Len(doc.items) = MaxDevices

(* C2: create(draft) on a loadable document succeeds whatever is stored and
   yields the stored list unchanged, in order, followed by one new entry whose
   name, mac and optional fields (targetAddr, port) equal the draft's and
   whose id is generated: not an id already stored, and not taken from the
   draft. *)
C2_CreateAppendsDraft ==
    (last.op = "add" /\ Loadable(call.before)) =>
        LET old == call.before.items
            n == Len(doc.items)
        IN  /\ last.result.ok
            /\ Parses(doc)
            /\ Returned = doc.items
            /\ n = Len(old) + 1
            /\ SubSeq(doc.items, 1, n - 1) = old
            /\ doc.items[n]["name"] = call.device["name"]
            /\ doc.items[n]["mac"] = call.device["mac"]
            /\ SameOptional(doc.items[n], call.device, "targetAddr")
            /\ SameOptional(doc.items[n], call.device, "port")
            /\ doc.items[n]["id"] \notin IdsOf(old)
            /\ doc.items[n]["id"] = last.uuid

(* C3: update(device) when an entry with device.id is stored keeps the length
   and order of the list, makes the entry at the matching position equal to
   device in every field (name, mac, targetAddr and port, present or absent as
   supplied), leaves the other entries alone, persists and returns the result. *)
C3_UpdateReplacesVerbatim ==
    (last.op = "update" /\ Loadable(call.before)
        /\ HasId(call.before.items, call.device["id"])) =>
        LET old == call.before.items
            i == FirstWithId(old, call.device["id"])
        IN  /\ last.result.ok
            /\ Parses(doc)
            /\ doc.items = [old EXCEPT ![i] = call.device]
            /\ Returned = doc.items

(* C4: update(d) when no stored entry has d.id fails with NotFound and leaves
   the backing document exactly as it was. *)
C4_UpdateUnknownIdNotFound ==
    (last.op = "update" /\ Loadable(call.before)
        /\ ~HasId(call.before.items, call.device["id"])) =>
        /\ last.result = Err("NotFound")
        /\ doc = call.before
        /\ ~Has(last.steps, "create")

(* an update of an unknown id on a list that holds other entries *)
C4_Witness ==
    /\ last.op = "update"
    /\ last.result = Err("NotFound")
    /\ Len(call.before.items) >= 2
    /\ ~HasId(call.before.items, call.device["id"])

(* C5: delete(id) when an entry with that id is stored persists and returns a
   list with one entry fewer, none of them with that id, the others being the
   loaded entries in their original order. *)
C5_DeleteRemovesOne ==
    (last.op = "delete" /\ Loadable(call.before)
        /\ HasId(call.before.items, call.device_id)) =>
        LET old == call.before.items
        IN  /\ last.result.ok
            /\ Parses(doc)
            /\ Returned = doc.items
            /\ Len(doc.items) = Len(old) - 1
            /\ ~HasId(doc.items, call.device_id)
            /\ \E i \in 1..Len(old) :
                /\ old[i]["id"] = call.device_id
                /\ doc.items = SubSeq(old, 1, i - 1) \o SubSeq(old, i + 1, Len(old))

(* the first of three entries has been deleted: two remain, in order *)
C5_Witness ==
    /\ last.op = "delete"
    /\ last.result.ok
    /\ Len(call.before.items) = 3
    /\ call.before.items[1]["id"] = call.device_id
    /\ Len(doc.items) = 2

(* C6: delete(id) when no stored entry has that id fails with NotFound and
   leaves the backing document exactly as it was. *)
C6_DeleteUnknownIdNotFound ==
    (last.op = "delete" /\ Loadable(call.before)
        /\ ~HasId(call.before.items, call.device_id)) =>
        /\ last.result = Err("NotFound")
        /\ doc = call.before
        /\ ~Has(last.steps, "create")

(* a delete of an unknown id on a list that holds other entries *)
C6_Witness ==
    /\ last.op = "delete"
    /\ last.result = Err("NotFound")
    /\ Len(call.before.items) >= 2

(* C7: when the backing document does not exist, load returns the empty list
   and no error, create yields a document of one entry, update and delete fail
   with NotFound (and create no document). *)
C7_FirstRun ==
    (last.op # "none" /\ ~call.before.exists) =>
        CASE last.op = "load" ->
                last.result = Ok(<<>>) /\ doc = call.before
          [] last.op = "add" ->
                last.result.ok /\ Parses(doc) /\ Len(doc.items) = 1
                /\ Returned = doc.items
          [] OTHER ->
                last.result = Err("NotFound") /\ doc = call.before

(* a load has run while there was no document *)
C7_Witness ==
    /\ last.op = "load"
    /\ ~call.before.exists
    /\ last.result.ok

(* C8: the list a successful load, create, update or delete returns equals the
   content of the backing document right after the call: a load that follows
   returns the same list. *)
C8_ReturnedIsStored ==
    (last.op # "none" /\ last.result.ok) =>
        /\ Loadable(doc)
        /\ load_devices_internal(doc, [fault |-> "none", uuid |-> 0]).result = last.result

(* C9 as claimed: every call that returns an error, a failure while creating
   or writing the document included, leaves the backing document exactly as
   it was before the call. *)
C9_FailedCallKeepsDocument == [][~last'.result.ok => doc' = doc]_vars

(* C9 as amended: a call that returns an error before File::create has
   succeeded (directory resolution, open, deserialization, NotFound, failure
   of File::create) leaves the backing document exactly as it was; a call that
   returns an error after File::create has succeeded leaves the document cut
   short. *)
C9_FailedCallBeforeTruncation ==
    [][~last'.result.ok =>
        IF Has(last'.steps, "write") THEN doc' = Truncated ELSE doc' = doc]_vars

(* File::create has failed on a document that holds entries, which are still there *)
C9_Witness ==
    /\ last.result = Err("IoCreate")
    /\ Parses(doc)
    /\ Len(doc.items) >= 1

(* C10: when the backing document exists and does not parse as a list of
   Device records, load fails with a deserialization error, and so do create,
   update and delete, at their load step: no id is generated, nothing is
   created or written, the document stays as it was. *)
C10_UnparseableRejected ==
    (last.op # "none" /\ call.before.exists /\ ~Parses(call.before)) =>
        /\ last.result = Err("Deserialization")
        /\ last.steps = <<"dir", "open">>
        /\ last.uuid = 0
        /\ doc = call.before

(* a create has been refused on a document with an entry that lacks a key *)
C10_Witness ==
    /\ last.op = "add"
    /\ last.result = Err("Deserialization")
    /\ call.before.closed
    /\ Len(call.before.items) = 2

(* C11: round trip: a list that is persisted and then loaded comes back equal:
   same entries, same order, same field values, and each optional field
   (targetAddr, port) absent if it was absent and present with the same value
   if it was present. *)
C11_RoundTrip ==
    trip.stage = "loaded" =>
        /\ trip.loaded.ok
        /\ Len(trip.loaded.devices) = Len(trip.given)
        /\ \A i \in 1..Len(trip.given) :
            LET back == Serialize(trip.loaded.devices[i])
            IN  /\ back["id"] = trip.given[i]["id"]
                /\ back["name"] = trip.given[i]["name"]
                /\ back["mac"] = trip.given[i]["mac"]
                /\ SameOptional(back, trip.given[i], "targetAddr")
                /\ SameOptional(back, trip.given[i], "port")

(* C12: the datagram goes to the host given as targetAddr when one is given,
   and to 255.255.255.255 when none is: the host the packet is sent to is a
   function of the targetAddr argument. *)
C12_DestinationHost ==
    (net.called /\ net.result.ok) =>
        /\ Len(net.wire) = 1
        /\ net.wire[1].host = IF net.target_addr = None THEN "255.255.255.255"
                              ELSE net.target_addr[1]

(* C13: the datagram goes to the port given when one is given and to port 9
   when none is; a send with neither targetAddr nor port goes to
   255.255.255.255:9. *)
C13_DestinationPort ==
    (net.called /\ net.result.ok) =>
        /\ Len(net.wire) = 1
        /\ net.wire[1].port = IF net.port = None THEN 9 ELSE net.port[1]
        /\ (net.target_addr = None /\ net.port = None) =>
               (net.wire[1].host = "255.255.255.255" /\ net.wire[1].port = 9)

(* the text is six groups of two hexadecimal digits with ':' between them *)
WellFormed(text) ==
    /\ Len(text) = 17
    /\ \A i \in 1..17 :
        IF i % 3 = 0 THEN text[i] = ":"
        ELSE text[i] \in {"0", "1", "2", "3", "4", "5", "6", "7", "8", "9",
                          "A", "B", "C", "D", "E", "F", "a", "b", "c", "d", "e", "f"}

Count(steps, s) == Cardinality({i \in 1..Len(steps) : steps[i] = s})

(* C14: a send with a MAC that is not six groups of two hexadecimal digits
   separated by ':' fails with InvalidMacFormat, opens no socket and sends no
   datagram; in every send the MAC is validated before the network is
   touched. *)
C14_MalformedMacRejected ==
    net.called =>
        /\ net.steps[1] = "parse"
        /\ ~WellFormed(net.mac_address) =>
            /\ net.result = SendErr("InvalidMacFormat")
            /\ net.steps = <<"parse">>
            /\ net.wire = <<>>

C14_Witness ==
    /\ net.called
    /\ Len(net.mac_address) = 17
    /\ ~WellFormed(net.mac_address)
    /\ net.transport = "ok"
    /\ net.result.err = "InvalidMacFormat"

(* the MACs of the model that are well formed, with their six octets *)
Octets ==
    { <<Text(<<(<<"A","A">>), <<"B","B">>, <<"C","C">>, <<"D","D">>, <<"E","E">>, <<"F","F">>>>, ":"),
        <<170, 187, 204, 221, 238, 255>> >>,
      <<Text(<<(<<"0","0">>), <<"1","1">>, <<"2","2">>, <<"3","3">>, <<"4","4">>, <<"5","5">>>>, ":"),
        <<0, 17, 34, 51, 68, 85>> >>,
      <<Text(<<(<<"0","a">>), <<"1","b">>, <<"2","c">>, <<"3","d">>, <<"4","e">>, <<"5","f">>>>, ":"),
        <<10, 27, 44, 61, 78, 95>> >> }

(* C15: for a valid MAC the payload of the datagram is exactly 102 bytes: six
   bytes 0xFF, then the six octets of the MAC sixteen times over. *)
C15_MagicPacketLayout ==
    (net.called /\ WellFormed(net.mac_address) /\ net.transport = "ok") =>
        /\ net.result.ok
        /\ Len(net.wire) = 1
        /\ \E o \in Octets :
            /\ o[1] = net.mac_address
            /\ Len(net.wire[1].payload) = 102
            /\ \A i \in 1..6 : net.wire[1].payload[i] = 255
            /\ \A k \in 0..15 : \A j \in 1..6 :
                   net.wire[1].payload[6 + 6 * k + j] = o[2][j]

C15_Witness ==
    /\ net.called
    /\ net.result.ok
    /\ net.mac_address[1] = "0" /\ net.mac_address[2] = "a"
    /\ Len(net.wire) = 1
    /\ Len(net.wire[1].payload) = 102

(* C17: a send makes at most one transmission attempt: a successful send has
   put exactly one datagram on the wire, a failed one none; nothing is tried
   again and nothing is waited for. *)
C17_OneAttempt ==
    net.called =>
        /\ Count(net.steps, "send_to") <= 1
        /\ Count(net.steps, "bind") <= 1
        /\ \A i \in 1..Len(net.steps) :
               net.steps[i] \in {"parse", "bind", "set_broadcast", "send_to"}
        /\ net.result.ok => (Len(net.wire) = 1 /\ Count(net.steps, "send_to") = 1)
        /\ ~net.result.ok => net.wire = <<>>

C17_Witness ==
    /\ net.called
    /\ net.transport = "send_to"
    /\ net.result = SendErr("NetworkSendError")
    /\ Count(net.steps, "send_to") = 1

(* C18: when the host supplies no configuration directory, a load, create,
   update or delete returns an error before the backing document is opened,
   read, created or written and before an id is generated. *)
C18_NoDirectoryNoAccess ==
    last.fault = "dir" =>
        /\ last.result = Err("ConfigDir")
        /\ \A s \in {"open", "uuid", "create", "write"} : ~Has(last.steps, s)
        /\ last.uuid = 0

C18_Witness ==
    /\ last.op = "add"
    /\ last.fault = "dir"
    /\ ~last.result.ok
    /\ Parses(doc)
    /\ Len(doc.items) > 0

(* an entry in the fields the store reads: id, name, mac and the address,
   where a null address is no address *)
AddrOf(item) ==
    IF "targetAddr" \in DOMAIN item /\ item["targetAddr"] # Null
    THEN <<item["targetAddr"]>>
    ELSE <<>>

Same(a, b) ==
    /\ a["id"] = b["id"]
    /\ a["name"] = b["name"]
    /\ a["mac"] = b["mac"]
    /\ AddrOf(a) = AddrOf(b)

CountId(items, id) == Cardinality({i \in 1..Len(items) : items[i]["id"] = id})

Others(items, id) == SelectSeq(items, LAMBDA item : item["id"] # id)

(* C20: on a document in which several entries share an id, update(device)
   replaces the first entry with that id and leaves every other entry, the
   later ones with that id included, as it was; delete(id) removes every
   entry with that id and keeps the rest in order; neither leaves more
   entries sharing an id than there were.  Entries are compared in the fields
   the store reads. *)
C20_DuplicateIds ==
    (last.op \in {"update", "delete"} /\ last.result.ok /\ Parses(call.before)) =>
        LET old == call.before.items
            new == doc.items
        IN  /\ last.op = "update" =>
                LET i == FirstWithId(old, call.device["id"])
                IN  /\ Len(new) = Len(old)
                    /\ Same(new[i], call.device)
                    /\ \A j \in 1..Len(old) : j # i => Same(new[j], old[j])
            /\ last.op = "delete" =>
                LET rest == Others(old, call.device_id)
                IN  /\ ~HasId(new, call.device_id)
                    /\ Len(new) = Len(rest)
                    /\ \A j \in 1..Len(rest) : Same(new[j], rest[j])
            /\ \A id \in IdsOf(old) \cup IdsOf(new) : CountId(new, id) <= CountId(old, id)

(* an update has replaced the first of two entries with one id by something
   else and the second is still there *)
C20_Witness ==
    /\ last.op = "update"
    /\ last.result.ok
    /\ Len(call.before.items) = 2
    /\ CountId(call.before.items, call.device["id"]) = 2
    /\ ~Same(call.before.items[1], call.device)
    /\ ~Same(call.before.items[2], call.device)
    /\ CountId(doc.items, call.device["id"]) = 2

(* both calls have loaded before either has persisted, and both have persisted *)
Overlapped ==
    /\ Len(tasks.log) = 4
    /\ tasks.log[1].step = "load" /\ tasks.log[2].step = "load"
    /\ tasks.log[3].step = "persist" /\ tasks.log[4].step = "persist"

(* the list a call writes, from the list it loaded and its arguments *)
Mutation(c) ==
    IF c.op = "add" THEN Append(c.before.items, [c.device EXCEPT !["id"] = c.uuid])
    ELSE IF c.op = "update"
    THEN [c.before.items EXCEPT ![FirstWithId(c.before.items, c.device["id"])] = c.device]
    ELSE Others(c.before.items, c.device_id)

(* C16: when two create, update or delete calls both load the document before
   either persists, the document after both have persisted is the list of the
   call that persisted last: the snapshot it loaded with its own change; the
   change of the other call is not in it, although that call returned
   success. *)
C16_LostUpdate ==
    Overlapped =>
        LET first == tasks.calls[tasks.log[3].p]
            winner == tasks.calls[tasks.log[4].p]
            written == Mutation(winner)
        IN  /\ first.out.result.ok
            /\ winner.out.result.ok
            /\ winner.before = first.before
            /\ Parses(doc)
            /\ Len(doc.items) = Len(written)
            /\ \A i \in 1..Len(written) : Same(doc.items[i], written[i])
            /\ first.op = "add" => ~HasId(doc.items, first.uuid)

(* a create and a delete have overlapped; the delete wrote last and the
   created entry is gone *)
C16_Witness ==
    /\ Overlapped
    /\ tasks.calls[tasks.log[3].p].op = "add"
    /\ tasks.calls[tasks.log[3].p].out.result.ok
    /\ tasks.calls[tasks.log[4].p].op = "delete"
    /\ Len(doc.items) = 1

(* C19: under every interleaving of the load and persist steps of create,
   update and delete calls started from a document with distinct ids, every
   list a call is about to write, and so the document after every persist,
   has pairwise distinct ids. *)
C19_RaceKeepsIdsDistinct ==
    /\ PairwiseDistinctIds(doc.items)
    /\ \A p \in Procs :
        tasks.calls[p].pc = "persist" => PairwiseDistinctIds(tasks.calls[p].out.doc.items)

(* two creates have overlapped and one of them has written *)
C19_Witness ==
    /\ \A p \in Procs : tasks.calls[p].op = "add"
    /\ Len(tasks.log) >= 3
    /\ tasks.log[1].step = "load" /\ tasks.log[2].step = "load"
    /\ tasks.log[3].step = "persist"
    /\ Len(doc.items) = 2

====
